---- MODULE Spec2Model ----
(***************************************************************************)
(* Model of the fmpy request pipeline: FMPClient / FMPClientLegacy         *)
(* (src/fmpy_stark/client.py, src/fmpy_stark/client_legacy.py).            *)
(*                                                                         *)
(* A client is constructed from an optional explicit key and the process   *)
(* environment; get/post run _request, which builds the URL, merges the    *)
(* key into the params, hands the request to the HTTP session, checks the  *)
(* status and decodes the body as CSV or JSON (with a CSV fallback).       *)
(***************************************************************************)
EXTENDS Integers, Sequences, FiniteSets, TLC

(* ------------------------------------------------------------------ *)
(* Bounds and input domains                                           *)
(* ------------------------------------------------------------------ *)

\* longest response body (in characters) the server sends in the model
MaxBody == 3

\* Python's None, for str-or-None values
NoneVal == "<None>"

\* characters a response body is made of: double quote, comma, newline,
\* the digit 0, and the JSON brackets
Alphabet == {"\"", ",", "\n", "0", "[", "]", "{", "}"}

Bodies == UNION {[1..n -> Alphabet] : n \in 0..MaxBody}

\* the bodies the facade methods are answered with: no quotes
FacadeAlphabet == Alphabet \ {"\""}
FacadeBodies == UNION {[1..n -> FacadeAlphabet] : n \in 0..MaxBody}

\* explicit api_key arguments and FMP_API_KEY values: absent, empty, set
\* longest body of the long-body runs, just over the 500 of text[:500]
MaxText == 502

\* the first n characters of head followed by x, x, x, ...
LongBody(head, n) == [i \in 1..n |-> IF i <= Len(head) THEN head[i] ELSE "x"]

\* a long body begins with nothing special, with an opening quote and a
\* comma (sniffed as CSV, but the quote is never closed), with a comma (read
\* as CSV) or with an opening bracket
LongBodies ==
    {LongBody(h, n) : h \in {<<>>, <<"\"", ",">>, <<",">>, <<"[">>},
                      n \in 0..MaxText}

ExplicitKeys == {NoneVal, "", "k1"}
EnvKeys == {NoneVal, "", "k2"}

\* keys and values of a caller's params mapping ("" is a falsy key, None a
\* value a caller may leave in)
ParamKeys == {"", "a", "apikey"}
ParamVal == "v"
ParamVals == {ParamVal, NoneVal}

Dicts == UNION {[S -> ParamVals] : S \in SUBSET ParamKeys}
EmptyDict == [k \in {} |-> ParamVal]

\* an Optional[Dict]: isNone marks Python's None (d is then unused)
NoneParams == [isNone |-> TRUE, d |-> EmptyDict]
SomeParams(d) == [isNone |-> FALSE, d |-> d]
ParamsArgs == {NoneParams} \cup {SomeParams(d) : d \in Dicts}

\* JSON bodies of a post
Datas == {"d1"}

Classes == {"FMPClient", "FMPClientLegacy"}

\* endpoint arguments, each a string as its tokens (the separators ":" and
\* "/" and the text between them): a relative path, a path with a leading slash, paths
\* with ".." segments, a scheme-relative string, absolute URLs (another
\* host; the API host over http), the empty string, and a string whose host
\* part opens a bracket it never closes
Endpoints ==
    { <<"test_endpoint">>,
      <<"/", "x">>,
      <<"..", "/", "x">>,
      <<"a", "/", "..", "/", "b">>,
      <<"/", "/", "evil.example", "/", "x">>,
      <<"https", ":", "/", "/", "evil.example", "/", "x">>,
      <<"http", ":", "/", "/", "financialmodelingprep.com", "/", "stable",
        "/", "x">>,
      <<>>,
      <<"/", "/", "[">> }

\* HTTP statuses a final response can carry (a 304 or a 3xx without a
\* Location header is not followed by the session)
Statuses == {200, 304, 404, 500}

(* ------------------------------------------------------------------ *)
(* Exceptions                                                         *)
(* ------------------------------------------------------------------ *)

\* src/fmpy_stark/exceptions.py
FMPErrors == {"FMPError", "FMPRequestError", "FMPAPIError", "FMPValidationError"}
\* requests.exceptions.RequestException and its subclasses
RequestExceptions == {"RequestException", "ConnectionError", "HTTPError"}
\* what session.request itself can raise
TransportRaises == {"ConnectionError", "Exception"}

(* ------------------------------------------------------------------ *)
(* State                                                              *)
(* ------------------------------------------------------------------ *)

VARIABLES
    env,          \* os.environ.get("FMP_API_KEY")
    pc,           \* position of the caller / of _request
    init_arg,     \* the api_key argument __init__ was called with
    cls,          \* class of the client: FMPClient or FMPClientLegacy
    api_key,      \* self.api_key
    session,      \* TRUE once self.session exists
    base_url,     \* BASE_URL / self._base_url
    frame,        \* arguments and locals of _request while the request is out
    expect_csv,   \* the expect_csv argument of the running call
    inflight,     \* request handed to session.request, on its way
    sent_count,   \* HTTP requests issued by the running call
    response,     \* what session.request produced
    json_tried,   \* response.json() has been called in this call
    csv_tried,    \* pd.read_csv has been called in this call
    outcome,      \* what the call returned or raised
    facade,       \* the facade method that is running, if one is
    message,      \* what the FMPAPIError of the running call says
    history,      \* how the earlier calls on this client ended
    utils_arg,    \* argument of a direct call of response_to_df
    utils_out,    \* what that call produced
    date_arg,     \* argument of a direct call of format_date
    date_out,     \* what that call produced
    shared,       \* a params dict two threads pass to two clients
    threads       \* the two threads: their client's key and their position

utils_vars == <<utils_arg, utils_out, date_arg, date_out>>

race_vars == <<shared, threads>>

vars == <<env, pc, init_arg, cls, api_key, session, base_url, frame,
          expect_csv, inflight, sent_count, response, json_tried,
          csv_tried, outcome, facade, message, history, utils_arg,
          utils_out, date_arg, date_out, shared, threads>>

(* ------------------------------------------------------------------ *)
(* Pure helpers                                                       *)
(* ------------------------------------------------------------------ *)

\* truth value of an Optional[str]: None and "" are falsy
Truthy(x) == x \notin {NoneVal, ""}

\* Python's `a or b`
PyOr(a, b) == IF Truthy(a) THEN a ELSE b

\* faulty variant: the environment variable takes precedence over the argument
resolve_api_key_env_first(arg, e) == PyOr(e, arg)

\* faulty variant: the environment variable is never consulted
resolve_api_key_no_env(arg, e) == arg

\* __init__: self.api_key = api_key or os.environ.get("FMP_API_KEY")
resolve_api_key(arg, e) == PyOr(arg, e)

\* faulty variant: only a missing key is refused, an empty one is accepted
init_raises_none_only(key) == key = NoneVal

\* __init__: `if not self.api_key: raise ValueError`
init_raises(key) == ~Truthy(key)

\* config.BASE_URL = "https://financialmodelingprep.com/stable/"
BASE_URL ==
    <<"https", ":", "/", "/", "financialmodelingprep.com", "/", "stable", "/">>

\* s[i:] for a 1-based i
From(s, i) == SubSeq(s, i, Len(s))

\* s[:-1]
Front(s) == SubSeq(s, 1, Len(s) - 1)

\* s.startswith(t) at position i
MatchAt(s, i, t) == i + Len(t) - 1 <= Len(s) /\ SubSeq(s, i, i + Len(t) - 1) = t

RECURSIVE replace(_, _, _)
\* str.replace(old, new): every non-overlapping occurrence, left to right
replace(s, old, new) ==
    IF Len(s) = 0 THEN s
    ELSE IF MatchAt(s, 1, old) THEN new \o replace(From(s, Len(old) + 1), old, new)
    ELSE <<Head(s)>> \o replace(Tail(s), old, new)

\* FMPClientLegacy.__init__: BASE_URL.replace("/stable/", "/api/v3/")
legacy_base_url ==
    replace(BASE_URL, <<"/", "stable", "/">>, <<"/", "api", "/", "v3", "/">>)

\* BASE_URL for FMPClient, self._base_url for FMPClientLegacy
class_base_url(c) == IF c = "FMPClientLegacy" THEN legacy_base_url ELSE BASE_URL

RECURSIVE Join(_, _)
\* sep.join(items) for a sequence of strings
Join(items, sep) ==
    IF Len(items) = 0 THEN ""
    ELSE IF Len(items) = 1 THEN items[1]
    ELSE items[1] \o sep \o Join(Tail(items), sep)

RECURSIVE split(_)
\* path.split("/") on the tokens of a path
split(toks) ==
    IF Len(toks) = 0 THEN <<"">>
    ELSE IF Head(toks) = "/" THEN <<"">> \o split(Tail(toks))
    ELSE IF Len(toks) = 1 THEN <<Head(toks)>>
    ELSE <<Head(toks)>> \o split(From(toks, 3))

RECURSIVE Find(_, _, _)
\* position of the first c at or after i, Len(s) + 1 when there is none
Find(s, c, i) ==
    IF i > Len(s) \/ s[i] = c THEN i ELSE Find(s, c, i + 1)

\* the components of a URL; ok = FALSE stands for the ValueError urlsplit
\* raises
Url(scheme, netloc, path) ==
    [ok |-> TRUE, scheme |-> scheme, netloc |-> netloc, path |-> path]
NoUrl == Url("", "", <<>>)
InvalidUrl == [ok |-> FALSE, scheme |-> "", netloc |-> "", path |-> <<>>]

\* urllib.parse.urlsplit(url, scheme=default): scheme, netloc and path (as
\* path.split("/")); a netloc with "[" and no "]" is "Invalid IPv6 URL"
urlsplit(toks, default) ==
    LET hasScheme == /\ Len(toks) >= 2
                     /\ toks[1] \in {"https", "http"}
                     /\ toks[2] = ":"
        scheme == IF hasScheme THEN toks[1] ELSE default
        rest == IF hasScheme THEN From(toks, 3) ELSE toks
        hasNetloc == MatchAt(rest, 1, <<"/", "/">>)
        cut == IF hasNetloc THEN Find(rest, "/", 3) ELSE 1
        host == IF hasNetloc THEN SubSeq(rest, 3, cut - 1) ELSE <<>>
    IN  IF (\E i \in 1..Len(host) : host[i] = "[")
           /\ ~(\E i \in 1..Len(host) : host[i] = "]")
        THEN InvalidUrl
        ELSE Url(scheme, Join(host, ""), split(From(rest, cut)))

RECURSIVE resolve(_, _)
\* urljoin's loop over the segments: ".." pops (an empty stack stays
\* empty), "." is skipped
resolve(segments, resolved_path) ==
    IF Len(segments) = 0 THEN resolved_path
    ELSE IF Head(segments) = ".."
         THEN resolve(Tail(segments),
                      IF Len(resolved_path) > 0 THEN Front(resolved_path)
                      ELSE resolved_path)
    ELSE IF Head(segments) = "." THEN resolve(Tail(segments), resolved_path)
    ELSE resolve(Tail(segments), Append(resolved_path, Head(segments)))

\* segments[1:-1] = filter(None, segments[1:-1])
filter_middle(segments) ==
    IF Len(segments) < 2 THEN segments
    ELSE <<segments[1]>>
         \o SelectSeq(SubSeq(segments, 2, Len(segments) - 1), LAMBDA x : x # "")
         \o <<segments[Len(segments)]>>

\* urlunsplit's path: "/".join(resolved) or "/", with the leading slash a
\* URL with a netloc gets
unsplit_path(resolved) ==
    IF Len(resolved) = 0 \/ resolved = <<"">> THEN <<"", "">>
    ELSE IF resolved[1] # "" THEN <<"">> \o resolved
    ELSE resolved

\* urllib.parse.urljoin once both URLs are split: b is urlsplit(base) and u
\* is urlsplit(url, b.scheme)
urljoin_split(b, u) ==
    LET base_parts == IF b.path[Len(b.path)] # "" THEN Front(b.path)
                      ELSE b.path
        segments == IF Len(u.path) >= 2 /\ u.path[1] = ""
                    THEN u.path
                    ELSE filter_middle(base_parts \o u.path)
        last == segments[Len(segments)]
        resolved_path == resolve(segments, <<>>)
        closed == IF last \in {".", ".."} THEN Append(resolved_path, "")
                  ELSE resolved_path
    IN  IF ~u.ok THEN InvalidUrl
        ELSE IF u.scheme # b.scheme THEN u
        ELSE IF u.netloc # "" THEN u
        ELSE IF u.path = <<"">> THEN Url(u.scheme, b.netloc, b.path)
        ELSE Url(u.scheme, b.netloc, unsplit_path(closed))

\* urllib.parse.urljoin(base, url)
urljoin(base, url) ==
    IF Len(base) = 0 THEN urlsplit(url, "")
    ELSE IF Len(url) = 0 THEN urlsplit(base, "")
    ELSE urljoin_split(urlsplit(base, ""),
                       urlsplit(url, urlsplit(base, "").scheme))

\* _get_url: urljoin(BASE_URL, endpoint) / urljoin(self._base_url, endpoint)
_get_url(base, endpoint) == urljoin(base, endpoint)

\* dict item assignment d[k] = v
DictSet(d, k, v) == [x \in (DOMAIN d) \cup {k} |-> IF x = k THEN v ELSE d[x]]

\* any(params): some key of the mapping is truthy
any(d) == \E k \in DOMAIN d : Truthy(k)

\* the mapping _add_api_key works on after `if params is None: params = {}`
or_empty(p) == IF p.isNone THEN EmptyDict ELSE p.d

\* faulty variant: a missing params mapping is sent as it is, without the key
_add_api_key_skips_none(key, p) ==
    IF p.isNone THEN EmptyDict ELSE DictSet(p.d, "apikey", key)

\* faulty variant: an apikey entry of the caller is kept (dict.setdefault)
_add_api_key_setdefault(key, p) ==
    IF "apikey" \in DOMAIN or_empty(p) THEN or_empty(p)
    ELSE DictSet(or_empty(p), "apikey", key)

\* _add_api_key: the mapping it returns
_add_api_key(key, p) ==
    IF any(or_empty(p))
    THEN DictSet(or_empty(p), "apikey", key)
    ELSE [k \in {"apikey"} |-> key]

\* _add_api_key: the state of the caller's own mapping object afterwards
\* (the item assignment in the any() branch writes into the caller's dict)
caller_after(key, p) ==
    IF p.isNone THEN p
    ELSE IF any(p.d) THEN SomeParams(DictSet(p.d, "apikey", key))
    ELSE p

\* faulty variant: only server errors (5xx) are raised
raise_for_status_5xx_only(status) == status >= 500 /\ status < 600

\* response.raise_for_status(): HTTPError for 4xx and 5xx, nothing otherwise
raise_for_status(status) == status >= 400 /\ status < 600

\* faulty variant: the second clause wraps whatever it catches
pipeline_except_wraps_all(e) == "FMPRequestError"

\* the two outer except clauses of _request: what reaches the caller when
\* exception e leaves the try body
pipeline_except(e) ==
    IF e \in RequestExceptions THEN "FMPRequestError"
    ELSE IF e \in FMPErrors THEN e
    ELSE "FMPRequestError"

\* no FMPAPIError has been raised in the running call
NoMessage == [kind |-> "none", body |-> <<>>]

\* the 500 of `response.text[:500]`
PrefixLimit == 500

\* `text[:500]`
text_prefix(text) ==
    SubSeq(text, 1, IF Len(text) < PrefixLimit THEN Len(text) ELSE PrefixLimit)

\* faulty variant: the whole body is embedded
invalid_json_message_whole(text) ==
    [kind |-> "Invalid JSON response", body |-> text]

\* f"Invalid JSON response: {response.text[:500]}..."
invalid_json_message(text) ==
    [kind |-> "Invalid JSON response", body |-> text_prefix(text)]

\* f"Failed to parse CSV response: {str(e)}": the parser's words, no body
csv_message == [kind |-> "Failed to parse CSV response", body |-> <<>>]

\* the sniff rule that guards the CSV fallback
Contains(s, c) == \E i \in 1..Len(s) : s[i] = c

\* faulty variant: the first character is not looked at
looks_like_csv_any_start(text) ==
    /\ Len(text) > 0
    /\ Contains(text, ",")

\* faulty variant: a comma is not required
looks_like_csv_no_comma(text) ==
    /\ Len(text) > 0
    /\ text[1] \in {"\"", ","}

looks_like_csv(text) ==
    /\ Len(text) > 0
    /\ text[1] \in {"\"", ","}
    /\ Contains(text, ",")

(* ------------------------------------------------------------------ *)
(* utils.py: dates, symbols, parameter cleaning                       *)
(* ------------------------------------------------------------------ *)

\* what a helper produces: a value, or the exception it raises
Ok(v) == [ok |-> TRUE, exc |-> "none", val |-> v]
Err(e) == [ok |-> FALSE, exc |-> e, val |-> NoneVal]
NoResult == [ok |-> FALSE, exc |-> "none", val |-> NoneVal]

\* the characters "0".."9", at positions 1..10
DigitChars == <<"0", "1", "2", "3", "4", "5", "6", "7", "8", "9">>
IsDigit(c) == \E i \in 1..10 : DigitChars[i] = c
DigitValue(c) == (CHOOSE i \in 1..10 : DigitChars[i] = c) - 1
AllDigits(s) == \A i \in 1..Len(s) : IsDigit(s[i])

RECURSIVE int(_)
\* int(s) for a run of digits
int(s) == IF Len(s) = 0 THEN 0 ELSE 10 * int(Front(s)) + DigitValue(s[Len(s)])

\* a sequence of characters, written as one string
Str(chars) == Join(chars, "")

\* days of month m in year y (calendar.monthrange)
IsLeap(y) == y % 4 = 0 /\ (y % 100 # 0 \/ y % 400 = 0)
DaysInMonth(y, m) ==
    IF m = 2 THEN (IF IsLeap(y) THEN 29 ELSE 28)
    ELSE IF m \in {4, 6, 9, 11} THEN 30
    ELSE 31

\* validate_date: datetime.strptime(date_str, "%Y-%m-%d") does not raise.
\* It wants four digits, "-", a month 1..12 written with one or two digits,
\* "-", a day 1..31 written with one or two digits and nothing after it;
\* the year must be at least 1 and the day must exist in that month.
validate_date(date_str) ==
    LET h == Find(date_str, "-", 6)
        y == SubSeq(date_str, 1, 4)
        m == SubSeq(date_str, 6, h - 1)
        d == From(date_str, h + 1)
    IN  /\ Len(date_str) >= 8
        /\ AllDigits(y)
        /\ date_str[5] = "-"
        /\ h <= Len(date_str)
        /\ Len(m) \in {1, 2} /\ AllDigits(m) /\ int(m) \in 1..12
        /\ Len(d) \in {1, 2} /\ AllDigits(d) /\ int(d) \in 1..31
        /\ int(y) >= 1
        /\ int(d) <= DaysInMonth(int(y), int(m))

RECURSIVE Decimal(_)
\* the decimal digits of n
Decimal(n) ==
    IF n < 10 THEN <<DigitChars[n + 1]>>
    ELSE Append(Decimal(n \div 10), DigitChars[(n % 10) + 1])

\* %m and %d: two digits, zero-padded
Pad2(n) == IF n < 10 THEN <<"0">> \o Decimal(n) ELSE Decimal(n)

\* date_param.strftime("%Y-%m-%d") for a date or datetime with the fields
\* ymd (%Y is the year's digits, which the C library does not pad)
strftime(ymd) ==
    Decimal(ymd[1]) \o <<"-">> \o Pad2(ymd[2]) \o <<"-">> \o Pad2(ymd[3])

\* a date argument: its Python type; chars for a str; year, month, day for
\* a date or datetime
DateArg(t, chars, ymd) == [t |-> t, chars |-> chars, ymd |-> ymd]
DateStr(chars) == DateArg("str", chars, <<>>)
DateNone == DateArg("NoneType", <<>>, <<>>)

\* "2024-01-15", "2024-13-01", "2024-02-30", "2024-1-5", "01/15/2024", "",
\* date(2024, 1, 5), datetime(2024, 12, 31), None and an int
DateArgs ==
    { DateStr(<<"2", "0", "2", "4", "-", "0", "1", "-", "1", "5">>),
      DateStr(<<"2", "0", "2", "4", "-", "1", "3", "-", "0", "1">>),
      DateStr(<<"2", "0", "2", "4", "-", "0", "2", "-", "3", "0">>),
      DateStr(<<"2", "0", "2", "4", "-", "1", "-", "5">>),
      DateStr(<<"0", "1", "/", "1", "5", "/", "2", "0", "2", "4">>),
      DateStr(<<>>),
      DateArg("date", <<>>, <<2024, 1, 5>>),
      DateArg("datetime", <<>>, <<2024, 12, 31>>),
      DateNone,
      DateArg("int", <<>>, <<>>) }

\* format_date
format_date(date_param) ==
    IF date_param.t = "str"
    THEN IF validate_date(date_param.chars) THEN Ok(date_param.chars)
         ELSE Err("ValueError")
    ELSE IF date_param.t \in {"datetime", "date"}
    THEN Ok(strftime(date_param.ymd))
    ELSE Err("TypeError")

\* truth value of a date argument, as `if from_date:` sees it (the int of
\* DateArgs is not zero)
DateTruthy(d) ==
    IF d.t = "str" THEN Len(d.chars) > 0 ELSE d.t # "NoneType"

\* a date argument put into a mapping unformatted: the str itself, None,
\* or the object, written as its type
DateRaw(d) ==
    IF d.t = "str" THEN Str(d.chars)
    ELSE IF d.t = "NoneType" THEN NoneVal
    ELSE Str(<<"<", d.t, ">">>)

\* a symbols argument: its Python type; s for a str; the elements (type and
\* text) for a list or tuple
Elem(t, s) == [t |-> t, s |-> s]
SymArg(t, s, items) == [t |-> t, s |-> s, items |-> items]

SymbolsArgs ==
    { SymArg("str", "AAPL", <<>>),
      SymArg("str", "AAPL,MSFT", <<>>),
      SymArg("str", "", <<>>),
      SymArg("list", "", <<>>),
      SymArg("list", "", <<Elem("str", "AAPL")>>),
      SymArg("list", "", <<Elem("str", "AAPL"), Elem("str", "MSFT")>>),
      SymArg("list", "", <<Elem("str", "MSFT"), Elem("str", "AAPL")>>),
      SymArg("list", "", <<Elem("str", "AAPL"), Elem("int", "5")>>),
      SymArg("tuple", "", <<Elem("str", "AAPL"), Elem("str", "MSFT")>>),
      SymArg("NoneType", "", <<>>),
      SymArg("int", "5", <<>>) }

\* the texts of a sequence of elements
Texts(items) == [i \in 1..Len(items) |-> items[i].s]

\* faulty variant: the symbols are joined in reverse order
str_join_reversed(sep, items) ==
    IF \A i \in 1..Len(items) : items[i].t = "str"
    THEN Ok(Join([i \in 1..Len(items) |-> items[Len(items) + 1 - i].s], sep))
    ELSE Err("TypeError")

\* sep.join(items): TypeError for an element that is not a str
str_join(sep, items) ==
    IF \A i \in 1..Len(items) : items[i].t = "str"
    THEN Ok(Join(Texts(items), sep))
    ELSE Err("TypeError")

\* validate_symbols
validate_symbols(symbols) ==
    IF symbols.t = "str" THEN Ok(symbols.s)
    ELSE IF symbols.t = "list" THEN str_join(",", symbols.items)
    ELSE Err("TypeError")

\* clean_params: {k: v for k, v in params.items() if v is not None}
clean_params(params) ==
    [k \in {x \in DOMAIN params : params[x] # NoneVal} |-> params[k]]

(* ------------------------------------------------------------------ *)
(* response.json(): json.loads on the body text                       *)
(* ------------------------------------------------------------------ *)

\* a decoded value: its Python type t, its size n (elements of a list or
\* dict, characters of a str, the number itself for an int; rows of a
\* table) and, for a table, its number of columns m
Val(t, n, m) == [t |-> t, n |-> n, m |-> m]
NoVal == Val("none", 0, 0)

ParseFail == [ok |-> FALSE, pos |-> 0, val |-> NoVal]
ParseOk(pos, v) == [ok |-> TRUE, pos |-> pos, val |-> v]

JsonWs == {" ", "\t", "\n", "\r"}

\* where a scanning loop that started at position i stops: the first
\* position from i on that holds a character of stop, or the end of s
FirstOf(s, i, stop) ==
    LET hits == {j \in i..Len(s) : s[j] \in stop} IN
    IF hits = {} THEN Len(s) + 1
    ELSE CHOOSE j \in hits : \A k \in hits : j <= k

RECURSIVE SkipWs(_, _)
\* json.decoder WHITESPACE.match(s, i).end()
SkipWs(s, i) ==
    IF i <= Len(s) /\ s[i] \in JsonWs THEN SkipWs(s, i + 1) ELSE i

\* py_scanstring (strict): from the character after the opening quote to
\* the closing quote; a control character or the end of text is an error
ScanString(s, i, n) ==
    LET j == FirstOf(s, i, {"\"", "\n", "\r", "\t"}) IN
    IF j > Len(s) THEN ParseFail
    ELSE IF s[j] = "\"" THEN ParseOk(j + 1, Val("str", n + (j - i), 0))
    ELSE ParseFail

RECURSIVE ParseValue(_, _)
RECURSIVE ParseElems(_, _, _)
RECURSIVE ParseMembers(_, _, _)

\* json.scanner scan_once
ParseValue(s, i) ==
    IF i > Len(s) THEN ParseFail
    ELSE IF s[i] = "\"" THEN ScanString(s, i + 1, 0)
    ELSE IF s[i] = "0" THEN ParseOk(i + 1, Val("int", 0, 0))
    ELSE IF s[i] = "["
         THEN LET j == SkipWs(s, i + 1) IN
              IF j <= Len(s) /\ s[j] = "]"
              THEN ParseOk(j + 1, Val("list", 0, 0))
              ELSE ParseElems(s, j, 0)
    ELSE IF s[i] = "{"
         THEN LET j == SkipWs(s, i + 1) IN
              IF j <= Len(s) /\ s[j] = "}"
              THEN ParseOk(j + 1, Val("dict", 0, 0))
              ELSE ParseMembers(s, j, 0)
    ELSE ParseFail

\* json.decoder JSONArray after the first element position
ParseElems(s, i, n) ==
    LET r == ParseValue(s, i) IN
    IF ~r.ok THEN ParseFail
    ELSE LET j == SkipWs(s, r.pos) IN
         IF j > Len(s) THEN ParseFail
         ELSE IF s[j] = "]" THEN ParseOk(j + 1, Val("list", n + 1, 0))
         ELSE IF s[j] = "," THEN ParseElems(s, SkipWs(s, j + 1), n + 1)
         ELSE ParseFail

\* json.decoder JSONObject at a property name
ParseMembers(s, i, n) ==
    IF i > Len(s) \/ s[i] # "\"" THEN ParseFail
    ELSE LET k == ScanString(s, i + 1, 0) IN
         IF ~k.ok THEN ParseFail
         ELSE LET c == SkipWs(s, k.pos) IN
              IF c > Len(s) \/ s[c] # ":" THEN ParseFail
              ELSE LET r == ParseValue(s, SkipWs(s, c + 1)) IN
                   IF ~r.ok THEN ParseFail
                   ELSE LET j == SkipWs(s, r.pos) IN
                        IF j > Len(s) THEN ParseFail
                        ELSE IF s[j] = "}"
                             THEN ParseOk(j + 1, Val("dict", n + 1, 0))
                        ELSE IF s[j] = ","
                             THEN ParseMembers(s, SkipWs(s, j + 1), n + 1)
                        ELSE ParseFail

\* json.loads: one value, surrounded by whitespace only
json_loads(text) ==
    LET r == ParseValue(text, SkipWs(text, 1)) IN
    IF r.ok /\ SkipWs(text, r.pos) = Len(text) + 1
    THEN [ok |-> TRUE, val |-> r.val]
    ELSE [ok |-> FALSE, val |-> NoVal]

(* ------------------------------------------------------------------ *)
(* pd.read_csv(io.StringIO(text)) with default options                *)
(* ------------------------------------------------------------------ *)

RECURSIVE Tokenize(_, _, _, _, _)
\* the tokenizer's state machine; nf = fields closed on the current line,
\* lines = field counts of the lines closed so far.  Inside a field the
\* loop runs on to the next character that ends or changes it.  Blank lines are
\* skipped, a quoted field may hold commas and newlines, a doubled quote
\* inside a quoted field is one quote, and the text ending inside a quoted
\* field is an error.
Tokenize(s, i, st, nf, lines) ==
    IF i > Len(s)
    THEN IF st = "START_RECORD" THEN [ok |-> TRUE, lines |-> lines]
         ELSE IF st = "IN_QUOTED_FIELD" THEN [ok |-> FALSE, lines |-> lines]
         ELSE [ok |-> TRUE, lines |-> Append(lines, nf + 1)]
    ELSE LET c == s[i] IN
         IF st = "START_RECORD"
         THEN IF c = "\n" THEN Tokenize(s, i + 1, "START_RECORD", 0, lines)
              ELSE Tokenize(s, i, "START_FIELD", 0, lines)
         ELSE IF st = "START_FIELD"
         THEN IF c = "\n"
              THEN Tokenize(s, i + 1, "START_RECORD", 0, Append(lines, nf + 1))
              ELSE IF c = "\"" THEN Tokenize(s, i + 1, "IN_QUOTED_FIELD", nf, lines)
              ELSE IF c = "," THEN Tokenize(s, i + 1, "START_FIELD", nf + 1, lines)
              ELSE Tokenize(s, i + 1, "IN_FIELD", nf, lines)
         ELSE IF st = "IN_FIELD"
         THEN IF c = "\n"
              THEN Tokenize(s, i + 1, "START_RECORD", 0, Append(lines, nf + 1))
              ELSE IF c = "," THEN Tokenize(s, i + 1, "START_FIELD", nf + 1, lines)
              ELSE Tokenize(s, FirstOf(s, i + 1, {"\n", ","}), "IN_FIELD", nf,
                            lines)
         ELSE IF st = "IN_QUOTED_FIELD"
         THEN IF c = "\"" THEN Tokenize(s, i + 1, "QUOTE_IN_QUOTED_FIELD", nf, lines)
              ELSE Tokenize(s, FirstOf(s, i + 1, {"\""}), "IN_QUOTED_FIELD", nf,
                            lines)
         ELSE \* QUOTE_IN_QUOTED_FIELD
              IF c = "\"" THEN Tokenize(s, i + 1, "IN_QUOTED_FIELD", nf, lines)
              ELSE IF c = "," THEN Tokenize(s, i + 1, "START_FIELD", nf + 1, lines)
              ELSE IF c = "\n"
              THEN Tokenize(s, i + 1, "START_RECORD", 0, Append(lines, nf + 1))
              ELSE Tokenize(s, i + 1, "IN_FIELD", nf, lines)

Max(a, b) == IF a >= b THEN a ELSE b

\* a line after the first data line with more fields than the lines before
\* it ("Expected n fields in line k, saw m"); shorter lines are padded
TooManyFields(lines) ==
    \E j \in 3..Len(lines) : lines[j] > Max(lines[1], lines[2])

\* read_csv: the table (rows = lines after the header, columns = header
\* fields) or the exception it raises
read_csv(text) ==
    LET t == Tokenize(text, 1, "START_RECORD", 0, <<>>) IN
    IF ~t.ok THEN [ok |-> FALSE, exc |-> "ParserError", val |-> NoVal]
    ELSE IF Len(t.lines) = 0
    THEN [ok |-> FALSE, exc |-> "EmptyDataError", val |-> NoVal]
    ELSE IF TooManyFields(t.lines)
    THEN [ok |-> FALSE, exc |-> "ParserError", val |-> NoVal]
    ELSE [ok |-> TRUE, exc |-> "none",
          val |-> Val("table", Len(t.lines) - 1, t.lines[1])]

(* ------------------------------------------------------------------ *)
(* utils.py: response_to_df                                           *)
(* ------------------------------------------------------------------ *)

\* keys and values of the mappings response_to_df is called with
RecordKeys == {"x", "y"}
RecordVals == {"1", "2"}
Records == UNION {[S -> RecordVals] : S \in SUBSET RecordKeys}

\* longest list response_to_df is called with
MaxRecords == 2

\* an argument of response_to_df: its Python type; d for a dict; the
\* elements, mappings, for a list
Obj(t, d, items) == [t |-> t, d |-> d, items |-> items]
NoObj == Obj("none", EmptyDict, <<>>)

\* a dict, a list of up to MaxRecords dicts, and values of other types: a
\* table, a str, an int, None, a tuple
Objs ==
    {Obj("dict", d, <<>>) : d \in Records}
    \cup {Obj("list", EmptyDict, l) :
             l \in UNION {[1..n -> Records] : n \in 0..MaxRecords}}
    \cup {Obj(t, EmptyDict, <<>>) :
             t \in {"DataFrame", "str", "int", "NoneType", "tuple"}}

\* a pandas table: its rows, each a mapping from the columns to the cells
Table(rows, columns) == [rows |-> rows, columns |-> columns]
NaN == "NaN"

\* pd.DataFrame(records) for a list of mappings: one row per mapping, the
\* columns are the keys of all of them, a missing cell is NaN
DataFrame(records) ==
    LET columns == UNION {DOMAIN records[i] : i \in 1..Len(records)}
    IN  Table([i \in 1..Len(records) |->
                  [c \in columns |-> IF c \in DOMAIN records[i]
                                     THEN records[i][c] ELSE NaN]],
              columns)

\* faulty variant: a dict is handed to pd.DataFrame like a list, which
\* makes no row of its scalar values
response_to_df_dict_unwrapped(data) ==
    IF data.t = "dict" THEN Ok(Table(<<>>, DOMAIN data.d))
    ELSE IF data.t = "list" THEN Ok(DataFrame(data.items))
    ELSE Err("TypeError")

\* faulty variant: a value that is not a dict or a list is wrapped in an
\* empty table instead of being refused
response_to_df_lenient(data) ==
    IF data.t = "dict" THEN Ok(DataFrame(<<data.d>>))
    ELSE IF data.t = "list" THEN Ok(DataFrame(data.items))
    ELSE Ok(DataFrame(<<>>))

\* response_to_df: pd.DataFrame([data]) for a dict, pd.DataFrame() for
\* an empty list, pd.DataFrame(data) for another list, TypeError for
\* any other type
response_to_df(data) ==
    IF data.t = "dict" THEN Ok(DataFrame(<<data.d>>))
    ELSE IF data.t = "list"
    THEN IF Len(data.items) = 0 THEN Ok(Table(<<>>, {}))
         ELSE Ok(DataFrame(data.items))
    ELSE Err("TypeError")

(* ------------------------------------------------------------------ *)
(* Facade methods: the params each one builds                         *)
(* ------------------------------------------------------------------ *)

\* arguments the facade methods are called with; an int or a bool is
\* written as Python prints it
Symbols == {"AAPL"}
Queries == {"AAPL", NoneVal}
Limits == {NoneVal, "0", "10"}
Exchanges == {NoneVal, "", "NASDAQ"}
Parts == {"0", "1", NoneVal}
Pages == {NoneVal, "0", "1"}

\* the dict literal {k: v}
Dict1(k, v) == [x \in {k} |-> v]

\* `if d: params[key] = format_date(d)` on the result p of the lines before
add_date(p, key, d) ==
    IF ~p.ok \/ ~DateTruthy(d) THEN p
    ELSE IF format_date(d).ok
    THEN Ok(DictSet(p.val, key, Str(format_date(d).val)))
    ELSE Err(format_date(d).exc)

\* ChartEndpoints.basic: params up to the call of get
chart_basic_params(symbol, from_date, to_date) ==
    add_date(add_date(Ok(Dict1("symbol", symbol)), "from", from_date),
             "to", to_date)

\* BulkEndpointsLegacy.batch_eod_prices: params = {"date": date}
batch_eod_prices_params(date) == Ok(Dict1("date", DateRaw(date)))

\* QuoteEndpoints.batch: params = {"symbols": validate_symbols(symbols)}
quote_batch_params(symbols) ==
    IF validate_symbols(symbols).ok
    THEN Ok(Dict1("symbols", validate_symbols(symbols).val))
    ELSE Err(validate_symbols(symbols).exc)

\* SearchEndpoints.symbol: clean_params({"query":, "limit":, "exchange":})
search_symbol_params(query, limit, exchange) ==
    Ok(clean_params([k \in {"query", "limit", "exchange"} |->
                        IF k = "query" THEN query
                        ELSE IF k = "limit" THEN limit
                        ELSE exchange]))

\* truth value of an Optional[int], as `if limit:` sees it
IntTruthy(x) == x \notin {NoneVal, "0"}

\* `if v: params[key] = v` on the result p of the lines before
add_if_truthy(p, key, v) ==
    IF ~p.ok \/ ~IntTruthy(v) THEN p ELSE Ok(DictSet(p.val, key, v))

\* SECEndpoints.latest_8k_filings: params up to the call of get
latest_8k_filings_params(from_date, to_date, limit) ==
    add_if_truthy(add_date(add_date(Ok(EmptyDict), "from", from_date),
                           "to", to_date),
                  "limit", limit)

\* NewsEndpoints.fmp_articles: clean_params({"page":, "size":})
fmp_articles_params(page, size) ==
    Ok(clean_params([k \in {"page", "size"} |->
                        IF k = "page" THEN page ELSE size]))

\* faulty variant: a falsy part is left out of the params
company_profiles_params_if_part(part) ==
    IF part \in {NoneVal, "0"} THEN Ok(EmptyDict) ELSE Ok(Dict1("part", part))

\* BulkEndpointsLegacy.company_profiles: params = {"part": part}
company_profiles_params(part) == Ok(Dict1("part", part))

\* BulkEndpoints.company_profile: params = {"part": part}
company_profile_params(part) == Ok(Dict1("part", part))

NoOutcome == [kind |-> "none", exc |-> "none", val |-> NoVal]
Returned(v) == [kind |-> "return", exc |-> "none", val |-> v]
Raised(e) == [kind |-> "raise", exc |-> e, val |-> NoVal]

\* columns of a table whose layout the model does not follow
Untracked == 0 - 1

\* response_to_df on a decoded value: one row for a dict, one row per
\* element for a list, TypeError for anything else (a table included)
response_to_df_shape(v) ==
    IF v.t = "dict" THEN Ok(Val("table", 1, v.n))
    ELSE IF v.t = "list"
    THEN IF v.n = 0 THEN Ok(Val("table", 0, 0))
         ELSE Ok(Val("table", v.n, Untracked))
    ELSE Err("TypeError")

\* what a facade method makes of the value get returned: the lines after
\* the call of get.  company_profiles hands the table on, or its rows as a
\* list of records; every other method converts with response_to_df when
\* as_dataframe is set (ChartEndpoints.basic then parses a "date" column,
\* which no body of the model has).
facade_return(name, as_dataframe, v) ==
    IF name = "bulk_legacy.company_profiles"
    THEN IF as_dataframe THEN Returned(v) ELSE Returned(Val("list", v.n, 0))
    ELSE IF ~as_dataframe THEN Returned(v)
    ELSE IF response_to_df_shape(v).ok
    THEN Returned(response_to_df_shape(v).val)
    ELSE Raised(response_to_df_shape(v).exc)

(* ------------------------------------------------------------------ *)
(* Initial state and actions                                          *)
(* ------------------------------------------------------------------ *)

NoFrame == [method |-> "none", url |-> NoUrl, arg |-> NoneParams,
            caller |-> NoneParams, params |-> EmptyDict, merged |-> FALSE,
            data |-> NoneVal]
NoRequest == [method |-> "none", url |-> NoUrl, params |-> EmptyDict,
              json |-> NoneVal]
NoResponse == [kind |-> "none", exc |-> "none", status |-> 0, text |-> <<>>]

\* no facade method is running: get or post was called directly
NoFacade == [name |-> "none", as_dataframe |-> FALSE, args |-> <<>>]

\* the client's side of the initial state
ClientInit ==
    /\ env \in EnvKeys
    /\ pc = "start"
    /\ init_arg = NoneVal
    /\ cls = "none"
    /\ api_key = NoneVal
    /\ session = FALSE
    /\ base_url = <<>>
    /\ frame = NoFrame
    /\ expect_csv = FALSE
    /\ inflight = NoRequest
    /\ sent_count = 0
    /\ response = NoResponse
    /\ json_tried = FALSE
    /\ csv_tried = FALSE
    /\ outcome = NoOutcome
    /\ facade = NoFacade
    /\ message = NoMessage
    /\ history = "none"

\* one client; nothing of utils.py is called on its own, and no second
\* thread runs
Init ==
    /\ ClientInit
    /\ utils_arg = NoObj
    /\ utils_out = NoResult
    /\ date_arg = DateNone
    /\ date_out = NoResult
    /\ shared = EmptyDict
    /\ threads = <<>>

\* c.__init__(api_key=arg) for c = FMPClient or FMPClientLegacy
Construct(c, arg) ==
    /\ pc = "start"
    /\ init_arg' = arg
    /\ cls' = c
    /\ IF init_raises(resolve_api_key(arg, env))
       THEN /\ pc' = "failed"
            /\ outcome' = Raised("ValueError")
            /\ UNCHANGED <<api_key, session, base_url>>
       ELSE /\ pc' = "idle"
            /\ api_key' = resolve_api_key(arg, env)
            /\ session' = TRUE
            /\ base_url' = class_base_url(c)
            /\ UNCHANGED outcome
    /\ UNCHANGED <<env, frame, expect_csv, inflight, sent_count, response,
                   json_tried, csv_tried>>
    /\ UNCHANGED <<facade, utils_vars, race_vars, message, history>>

\* entry of _request(method, endpoint, params, data, expect_csv) up to
\* `url = self._get_url(endpoint)`, which stands before the try block: the
\* ValueError of urljoin leaves _request as it is; url is the outcome of
\* self._get_url(endpoint)
Enter(method, url, p, data, csv) ==
    /\ pc = "idle"
    /\ IF url.ok
       THEN /\ pc' = "add_api_key"
            /\ frame' = [method |-> method,
                         url |-> url,
                         arg |-> p, caller |-> p, params |-> EmptyDict,
                         merged |-> FALSE, data |-> data]
            /\ UNCHANGED outcome
       ELSE /\ pc' = "done"
            /\ outcome' = Raised("ValueError")
            /\ UNCHANGED frame
    /\ expect_csv' = csv
    /\ sent_count' = 0
    /\ UNCHANGED <<env, init_arg, cls, api_key, session, base_url, inflight,
                   response, json_tried, csv_tried>>
    /\ UNCHANGED <<utils_vars, race_vars, message, history>>

\* get(endpoint, params, expect_csv)
Get(endpoint, p, csv) ==
    /\ Enter("GET", _get_url(base_url, endpoint), p, NoneVal, csv)
    /\ UNCHANGED facade

\* post(endpoint, data, params, expect_csv)
Post(endpoint, data, p, csv) ==
    /\ Enter("POST", _get_url(base_url, endpoint), p, data, csv)
    /\ UNCHANGED facade

\* `params = self._add_api_key(params)`
AddApiKey ==
    /\ pc = "add_api_key"
    /\ pc' = "request"
    /\ frame' = [frame EXCEPT !.params = _add_api_key(api_key, frame.arg),
                              !.caller = caller_after(api_key, frame.arg),
                              !.merged = TRUE]
    /\ UNCHANGED <<env, init_arg, cls, api_key, session, base_url, expect_csv,
                   inflight, sent_count, response, json_tried, csv_tried,
                   outcome>>
    /\ UNCHANGED <<facade, utils_vars, race_vars, message, history>>

\* faulty variant: the request is sent again after it was sent
SessionRequest_retry ==
    /\ pc = "request"
    /\ pc' = "waiting"
    /\ inflight' = [method |-> frame.method, url |-> frame.url,
                    params |-> frame.params, json |-> frame.data]
    /\ sent_count' = sent_count + 2
    /\ UNCHANGED <<env, init_arg, cls, api_key, session, base_url, frame,
                   expect_csv, response, json_tried, csv_tried, outcome>>
    /\ UNCHANGED <<facade, utils_vars, race_vars, message, history>>

\* `self.session.request(method=, url=, params=, json=, headers=)`: the
\* request leaves the client
SessionRequest ==
    /\ pc = "request"
    /\ pc' = "waiting"
    /\ inflight' = [method |-> frame.method, url |-> frame.url,
                    params |-> frame.params, json |-> frame.data]
    /\ sent_count' = sent_count + 1
    /\ UNCHANGED <<env, init_arg, cls, api_key, session, base_url, frame,
                   expect_csv, response, json_tried, csv_tried, outcome>>
    /\ UNCHANGED <<facade, utils_vars, race_vars, message, history>>

\* the request reaches the server; the arguments of the call are dead from
\* here on (the rest of _request reads only expect_csv and the response)
Receive ==
    /\ pc = "waiting"
    /\ pc' = "serving"
    /\ inflight' = NoRequest
    /\ frame' = NoFrame
    /\ UNCHANGED <<env, init_arg, cls, api_key, session, base_url, expect_csv,
                   sent_count, response, json_tried, csv_tried, outcome>>
    /\ facade' = [facade EXCEPT !.args = <<>>]
    /\ UNCHANGED <<utils_vars, race_vars, message, history>>

\* the server answers: session.request returns a response
Respond(status, text) ==
    /\ pc = "serving"
    /\ pc' = "raise_for_status"
    /\ response' = [kind |-> "response", exc |-> "none", status |-> status,
                    text |-> text]
    /\ UNCHANGED <<env, init_arg, cls, api_key, session, base_url, frame, expect_csv,
                   inflight, sent_count, json_tried, csv_tried, outcome>>
    /\ UNCHANGED <<facade, utils_vars, race_vars, message, history>>

\* session.request raises instead of returning
TransportFail(e) ==
    /\ pc \in {"waiting", "serving"}
    /\ pc' = "done"
    /\ response' = [kind |-> "exception", exc |-> e, status |-> 0,
                    text |-> <<>>]
    /\ inflight' = NoRequest
    /\ frame' = NoFrame
    /\ outcome' = Raised(pipeline_except(e))
    /\ UNCHANGED <<env, init_arg, cls, api_key, session, base_url, expect_csv,
                   sent_count, json_tried, csv_tried>>
    /\ facade' = [facade EXCEPT !.args = <<>>]
    /\ UNCHANGED <<utils_vars, race_vars, message, history>>

\* `response.raise_for_status()`
RaiseForStatus ==
    /\ pc = "raise_for_status"
    /\ IF raise_for_status(response.status)
       THEN /\ pc' = "done"
            /\ outcome' = Raised(pipeline_except("HTTPError"))
       ELSE /\ pc' = "decode"
            /\ UNCHANGED outcome
    /\ UNCHANGED <<env, init_arg, cls, api_key, session, base_url, frame,
                   expect_csv, inflight, sent_count, response, json_tried,
                   csv_tried>>
    /\ UNCHANGED <<facade, utils_vars, race_vars, message, history>>

\* faulty variant: the body is tried as JSON before it is read as CSV
decode_csv_json_first(text) ==
    IF json_loads(text).ok THEN Returned(json_loads(text).val)
    ELSE IF read_csv(text).ok THEN Returned(read_csv(text).val)
    ELSE Raised(pipeline_except("FMPAPIError"))

\* the value the `if expect_csv:` branch produces
decode_csv(text) ==
    IF read_csv(text).ok THEN Returned(read_csv(text).val)
    ELSE Raised(pipeline_except("FMPAPIError"))

\* `if expect_csv:` branch
DecodeCSV ==
    /\ pc = "decode"
    /\ expect_csv
    /\ pc' = "done"
    /\ csv_tried' = TRUE
    /\ outcome' = decode_csv(response.text)
    /\ message' = IF decode_csv(response.text).kind = "raise"
                  THEN csv_message ELSE message
    /\ UNCHANGED <<env, init_arg, cls, api_key, session, base_url, frame,
                   expect_csv, inflight, sent_count, response, json_tried>>
    /\ UNCHANGED <<facade, utils_vars, race_vars, history>>

\* faulty variant: every falsy value, the empty dict included, becomes []
normalise_every_falsy(v) == IF v.n = 0 THEN Val("list", 0, 0) ELSE v

\* `if not response_data and not isinstance(response_data, (list, dict))`
normalise(v) ==
    IF v.n = 0 /\ v.t \notin {"list", "dict"} THEN Val("list", 0, 0) ELSE v

\* `else:` branch, `response_data = response.json()` and the return after it
DecodeJSON ==
    /\ pc = "decode"
    /\ ~expect_csv
    /\ json_tried' = TRUE
    /\ IF json_loads(response.text).ok
       THEN /\ pc' = "done"
            /\ outcome' = Returned(normalise(json_loads(response.text).val))
       ELSE /\ pc' = "json_failed"
            /\ UNCHANGED outcome
    /\ UNCHANGED <<env, init_arg, cls, api_key, session, base_url, frame,
                   expect_csv, inflight, sent_count, response, csv_tried>>
    /\ UNCHANGED <<facade, utils_vars, race_vars, message, history>>

\* what the `except ValueError:` block produces for a body
json_fallback(text) ==
    IF looks_like_csv(text) /\ read_csv(text).ok
    THEN Returned(read_csv(text).val)
    ELSE Raised(pipeline_except("FMPAPIError"))

\* `except ValueError:` block
JsonFallback ==
    /\ pc = "json_failed"
    /\ pc' = "done"
    /\ csv_tried' = looks_like_csv(response.text)
    /\ outcome' = json_fallback(response.text)
    /\ message' = IF json_fallback(response.text).kind = "raise"
                  THEN invalid_json_message(response.text) ELSE message
    /\ UNCHANGED <<env, init_arg, cls, api_key, session, base_url, frame,
                   expect_csv, inflight, sent_count, response, json_tried>>
    /\ UNCHANGED <<facade, utils_vars, race_vars, history>>

\* a facade method called on client.<group>: it builds its params, which
\* may raise before anything is sent, and calls get once
FacadeCall(name, c, args, as_dataframe, endpoint, built, csv) ==
    /\ pc = "idle"
    /\ cls = c
    /\ facade' = [name |-> name, as_dataframe |-> as_dataframe, args |-> args]
    /\ IF built.ok
       THEN Enter("GET", _get_url(base_url, endpoint),
                  SomeParams(built.val), NoneVal, csv)
       ELSE /\ pc' = "facade_done"
            /\ outcome' = Raised(built.exc)
            /\ expect_csv' = FALSE
            /\ sent_count' = 0
            /\ UNCHANGED <<env, init_arg, cls, api_key, session, base_url,
                           frame, inflight, response, json_tried, csv_tried,
                           utils_vars, race_vars, message, history>>

\* client.chart.basic(symbol, from_date, to_date, as_dataframe)
ChartBasic(symbol, from_date, to_date, as_dataframe) ==
    FacadeCall("chart.basic", "FMPClient", <<symbol, from_date, to_date>>,
               as_dataframe, <<"historical-price-eod", "/", "light">>,
               chart_basic_params(symbol, from_date, to_date), FALSE)

\* legacy_client.bulk.batch_eod_prices(date, as_dataframe)
BatchEodPrices(date, as_dataframe) ==
    FacadeCall("bulk_legacy.batch_eod_prices", "FMPClientLegacy", <<date>>,
               as_dataframe, <<"batch-historical-eod">>,
               batch_eod_prices_params(date), FALSE)

\* client.quote.batch(symbols, as_dataframe)
QuoteBatch(symbols, as_dataframe) ==
    FacadeCall("quote.batch", "FMPClient", <<symbols>>, as_dataframe,
               <<"batch-quote">>, quote_batch_params(symbols), FALSE)

\* client.search.symbol(query, limit, exchange, as_dataframe)
SearchSymbol(query, limit, exchange, as_dataframe) ==
    FacadeCall("search.symbol", "FMPClient", <<query, limit, exchange>>,
               as_dataframe, <<"search-symbol">>,
               search_symbol_params(query, limit, exchange), FALSE)

\* client.bulk.company_profile(part, as_dataframe)
CompanyProfile(part, as_dataframe) ==
    FacadeCall("bulk.company_profile", "FMPClient", <<part>>, as_dataframe,
               <<"profile-bulk">>, company_profile_params(part), FALSE)

\* legacy_client.bulk.company_profiles(part, as_dataframe)
CompanyProfiles(part, as_dataframe) ==
    FacadeCall("bulk_legacy.company_profiles", "FMPClientLegacy", <<part>>,
               as_dataframe, <<"profile-bulk">>,
               company_profiles_params(part), TRUE)

\* client.sec.latest_8k_filings(from_date, to_date, limit, as_dataframe)
Latest8kFilings(from_date, to_date, limit, as_dataframe) ==
    FacadeCall("sec.latest_8k_filings", "FMPClient",
               <<from_date, to_date, limit>>, as_dataframe,
               <<"sec-filings-8k">>,
               latest_8k_filings_params(from_date, to_date, limit), FALSE)

\* client.news.fmp_articles(page, size, as_dataframe)
FmpArticles(page, size, as_dataframe) ==
    FacadeCall("news.fmp_articles", "FMPClient", <<page, size>>,
               as_dataframe, <<"fmp-articles">>,
               fmp_articles_params(page, size), FALSE)

\* get has returned or raised into the facade method: an exception passes
\* through, a value goes through the lines after the call
FacadeReturn ==
    /\ pc = "done"
    /\ facade.name # "none"
    /\ pc' = "facade_done"
    /\ outcome' = IF outcome.kind = "return"
                  THEN facade_return(facade.name, facade.as_dataframe,
                                     outcome.val)
                  ELSE outcome
    /\ UNCHANGED <<env, init_arg, cls, api_key, session, base_url, frame,
                   expect_csv, inflight, sent_count, response, json_tried,
                   csv_tried, facade, utils_vars, race_vars, message,
                   history>>

\* faulty variant: the client keeps the last response
Return_keeps_response ==
    /\ \/ pc = "done" /\ facade.name = "none"
       \/ pc = "facade_done"
    /\ pc' = "idle"
    /\ facade' = NoFacade
    /\ message' = NoMessage
    /\ history' = IF outcome.kind = "return" THEN "returned" ELSE "raised"
    /\ UNCHANGED <<utils_vars, race_vars>>
    /\ expect_csv' = FALSE
    /\ sent_count' = 0
    /\ json_tried' = FALSE
    /\ csv_tried' = FALSE
    /\ outcome' = NoOutcome
    /\ UNCHANGED <<env, init_arg, cls, api_key, session, base_url, frame,
                   inflight, response>>

\* the caller has its result; the client is ready for the next call
Return ==
    /\ \/ pc = "done" /\ facade.name = "none"
       \/ pc = "facade_done"
    /\ pc' = "idle"
    /\ facade' = NoFacade
    /\ message' = NoMessage
    /\ history' = IF outcome.kind = "return" THEN "returned" ELSE "raised"
    /\ UNCHANGED <<utils_vars, race_vars>>
    /\ expect_csv' = FALSE
    /\ sent_count' = 0
    /\ response' = NoResponse
    /\ json_tried' = FALSE
    /\ csv_tried' = FALSE
    /\ outcome' = NoOutcome
    /\ UNCHANGED <<env, init_arg, cls, api_key, session, base_url, frame,
                   inflight>>

\* get and post called on the client
Next ==
    \/ pc = "start" /\ \E c \in Classes, arg \in ExplicitKeys : Construct(c, arg)
    \/ pc = "idle" /\ \E e \in Endpoints, p \in ParamsArgs, csv \in BOOLEAN :
          Get(e, p, csv)
    \/ pc = "idle" /\ \E e \in Endpoints, d \in Datas, p \in ParamsArgs,
                        csv \in BOOLEAN : Post(e, d, p, csv)
    \/ AddApiKey
    \/ SessionRequest
    \/ Receive
    \/ pc = "serving" /\ \E st \in Statuses, text \in Bodies : Respond(st, text)
    \/ pc \in {"waiting", "serving"} /\ \E e \in TransportRaises : TransportFail(e)
    \/ RaiseForStatus
    \/ DecodeCSV
    \/ DecodeJSON
    \/ JsonFallback
    \/ Return

Spec == Init /\ [][Next]_vars

\* the facade methods as well, on a client built from an explicit key, with
\* the server's bodies drawn from FacadeBodies
FacadeInit == Init /\ env = NoneVal

FacadeNext ==
    \/ pc = "start" /\ \E c \in Classes, arg \in ExplicitKeys : Construct(c, arg)
    \/ pc = "idle" /\ \E e \in Endpoints, p \in ParamsArgs, csv \in BOOLEAN :
          Get(e, p, csv)
    \/ pc = "idle" /\ \E e \in Endpoints, d \in Datas, p \in ParamsArgs,
                        csv \in BOOLEAN : Post(e, d, p, csv)
    \/ pc = "idle" /\ \E sy \in Symbols, fd \in DateArgs, td \in DateArgs,
                        df \in BOOLEAN : ChartBasic(sy, fd, td, df)
    \/ pc = "idle" /\ \E d \in DateArgs, df \in BOOLEAN : BatchEodPrices(d, df)
    \/ pc = "idle" /\ \E sy \in SymbolsArgs, df \in BOOLEAN : QuoteBatch(sy, df)
    \/ pc = "idle" /\ \E q \in Queries, l \in Limits, x \in Exchanges,
                        df \in BOOLEAN : SearchSymbol(q, l, x, df)
    \/ pc = "idle" /\ \E pt \in Parts, df \in BOOLEAN : CompanyProfile(pt, df)
    \/ pc = "idle" /\ \E pt \in Parts, df \in BOOLEAN : CompanyProfiles(pt, df)
    \/ pc = "idle" /\ \E pg \in Pages, sz \in Limits, df \in BOOLEAN :
          FmpArticles(pg, sz, df)
    \/ AddApiKey
    \/ SessionRequest
    \/ Receive
    \/ pc = "serving" /\ \E st \in Statuses, text \in FacadeBodies :
          Respond(st, text)
    \/ pc \in {"waiting", "serving"} /\ \E e \in TransportRaises : TransportFail(e)
    \/ RaiseForStatus
    \/ DecodeCSV
    \/ DecodeJSON
    \/ JsonFallback
    \/ FacadeReturn
    \/ Return

FacadeSpec == FacadeInit /\ [][FacadeNext]_vars

\* the facade methods with optional parameters, on an FMPClient
OptionalNext ==
    \/ pc = "start" /\ \E arg \in ExplicitKeys : Construct("FMPClient", arg)
    \/ pc = "idle" /\ \E sy \in Symbols, fd \in DateArgs, td \in DateArgs,
                        df \in BOOLEAN : ChartBasic(sy, fd, td, df)
    \/ pc = "idle" /\ \E q \in Queries, l \in Limits, x \in Exchanges,
                        df \in BOOLEAN : SearchSymbol(q, l, x, df)
    \/ pc = "idle" /\ \E fd \in DateArgs, td \in DateArgs, l \in Limits,
                        df \in BOOLEAN : Latest8kFilings(fd, td, l, df)
    \/ pc = "idle" /\ \E pg \in Pages, sz \in Limits, df \in BOOLEAN :
          FmpArticles(pg, sz, df)
    \/ AddApiKey
    \/ SessionRequest
    \/ Receive
    \/ pc = "serving" /\ \E st \in Statuses, text \in FacadeBodies :
          Respond(st, text)
    \/ pc \in {"waiting", "serving"} /\ \E e \in TransportRaises : TransportFail(e)
    \/ RaiseForStatus
    \/ DecodeJSON
    \/ JsonFallback
    \/ FacadeReturn
    \/ Return

OptionalSpec == FacadeInit /\ [][OptionalNext]_vars

\* get answered with long bodies that are not JSON
LongNext ==
    \/ pc = "start" /\ \E c \in Classes : Construct(c, "k1")
    \/ pc = "idle" /\ Get(<<"test_endpoint">>, NoneParams, FALSE)
    \/ AddApiKey
    \/ SessionRequest
    \/ Receive
    \/ pc = "serving" /\ \E text \in LongBodies : Respond(200, text)
    \/ RaiseForStatus
    \/ DecodeJSON
    \/ JsonFallback
    \/ Return

LongSpec == FacadeInit /\ [][LongNext]_vars

\* two threads, each calling get on a client of its own, both passing the
\* same dict as params
Threads == {1, 2}

\* the api_key of the two clients
ClientKeys == {"k1", "k2"}

\* a call that has not started: `params` names the caller's dict
ThreadStart(key) ==
    [pc |-> "idle", api_key |-> key, params |-> "caller", own |-> EmptyDict,
     sent |-> EmptyDict]

RaceInit ==
    /\ ClientInit
    /\ env = NoneVal
    /\ utils_arg = NoObj
    /\ utils_out = NoResult
    /\ date_arg = DateNone
    /\ date_out = NoResult
    /\ shared \in Dicts \ {EmptyDict}
    /\ \E k1 \in ClientKeys : \E k2 \in ClientKeys \ {k1} :
          threads = [t \in Threads |-> ThreadStart(IF t = 1 THEN k1 ELSE k2)]

\* what the thread's local `params` holds
thread_params(t) ==
    IF threads[t].params = "caller" THEN shared ELSE threads[t].own

\* thread t enters get and _request: `url = self._get_url(endpoint)`
ThreadCall(t) ==
    /\ threads[t].pc = "idle"
    /\ threads' = [threads EXCEPT ![t].pc = "add_api_key"]
    /\ UNCHANGED <<env, pc, init_arg, cls, api_key, session, base_url, frame,
                   expect_csv, inflight, sent_count, response, json_tried,
                   csv_tried, outcome, facade, message, history, utils_vars,
                   shared>>

\* thread t: `params = self._add_api_key(params)`; with a truthy key in
\* the dict the item assignment writes into the dict both threads hold
ThreadAddApiKey(t) ==
    /\ threads[t].pc = "add_api_key"
    /\ IF any(shared)
       THEN /\ shared' = DictSet(shared, "apikey", threads[t].api_key)
            /\ threads' = [threads EXCEPT ![t].pc = "request"]
       ELSE /\ threads' = [threads EXCEPT
                              ![t].pc = "request",
                              ![t].params = "own",
                              ![t].own = _add_api_key(threads[t].api_key,
                                                      SomeParams(shared))]
            /\ UNCHANGED shared
    /\ UNCHANGED <<env, pc, init_arg, cls, api_key, session, base_url, frame,
                   expect_csv, inflight, sent_count, response, json_tried,
                   csv_tried, outcome, facade, message, history, utils_vars>>

\* thread t: `self.session.request(..., params=params, ...)` reads the dict
\* `params` names and sends what it holds now
ThreadSessionRequest(t) ==
    /\ threads[t].pc = "request"
    /\ threads' = [threads EXCEPT ![t].pc = "waiting",
                                  ![t].sent = thread_params(t)]
    /\ UNCHANGED <<env, pc, init_arg, cls, api_key, session, base_url, frame,
                   expect_csv, inflight, sent_count, response, json_tried,
                   csv_tried, outcome, facade, message, history, utils_vars,
                   shared>>

RaceNext ==
    \/ \E t \in Threads : ThreadCall(t)
    \/ \E t \in Threads : ThreadAddApiKey(t)
    \/ \E t \in Threads : ThreadSessionRequest(t)

RaceSpec == RaceInit /\ [][RaceNext]_vars

\* response_to_df and format_date called on their own
UtilsInit ==
    /\ ClientInit
    /\ env = NoneVal
    /\ utils_arg \in Objs
    /\ utils_out = NoResult
    /\ date_arg \in DateArgs
    /\ date_out = NoResult
    /\ shared = EmptyDict
    /\ threads = <<>>

\* `response_to_df(utils_arg)`
ResponseToDf ==
    /\ ~utils_out.ok
    /\ utils_out.exc = "none"
    /\ utils_out' = response_to_df(utils_arg)
    /\ UNCHANGED <<env, pc, init_arg, cls, api_key, session, base_url, frame,
                   expect_csv, inflight, sent_count, response, json_tried,
                   csv_tried, outcome, facade, message, history, utils_arg,
                   date_arg, date_out, race_vars>>

\* `format_date(date_arg)`
FormatDate ==
    /\ ~date_out.ok
    /\ date_out.exc = "none"
    /\ date_out' = format_date(date_arg)
    /\ UNCHANGED <<env, pc, init_arg, cls, api_key, session, base_url, frame,
                   expect_csv, inflight, sent_count, response, json_tried,
                   csv_tried, outcome, facade, message, history, utils_arg,
                   utils_out, date_arg, race_vars>>

UtilsNext ==
    \/ ResponseToDf
    \/ FormatDate

UtilsSpec == UtilsInit /\ [][UtilsNext]_vars

(* ------------------------------------------------------------------ *)
(* Properties: merging the credential into the params                 *)
(* ------------------------------------------------------------------ *)

\* a request is out: session.request has been called with inflight
Dispatched == pc = "waiting"

\* the mapping the caller passed ({} when it passed None)
CallerParams == or_empty(frame.arg)

\* C1: every caller entry whose key is not "apikey" reaches the HTTP call
\* with its value, whatever the keys are (falsy keys included), and the only
\* entry added is "apikey".
C1_CredentialAdditive ==
    Dispatched =>
        /\ \A k \in (DOMAIN CallerParams) \ {"apikey"} :
              /\ k \in DOMAIN inflight.params
              /\ inflight.params[k] = CallerParams[k]
        /\ (DOMAIN inflight.params) \ (DOMAIN CallerParams) \subseteq {"apikey"}

\* C2: with params omitted (None) or empty, the HTTP call gets exactly
\* {"apikey": <client key>}.
C2_EmptyParamsGiveOnlyKey ==
    (Dispatched /\ (frame.arg.isNone \/ DOMAIN frame.arg.d = {})) =>
        /\ DOMAIN inflight.params = {"apikey"}
        /\ inflight.params["apikey"] = api_key

C2_Witness ==
    /\ Dispatched
    /\ frame.arg.isNone
    /\ inflight.method = "POST"
    /\ inflight.params = [k \in {"apikey"} |-> api_key]

\* C3: every request sent carries the apikey parameter, once, with the key
\* the client got at construction; an apikey entry of the caller with
\* another value is replaced, and no other entry is.
C3_RequestCarriesClientKey ==
    Dispatched =>
        /\ "apikey" \in DOMAIN inflight.params
        /\ inflight.params["apikey"] = api_key
        /\ api_key = resolve_api_key(init_arg, env)
        /\ "apikey" \in DOMAIN CallerParams =>
              /\ DOMAIN inflight.params = DOMAIN CallerParams
              /\ \A k \in (DOMAIN CallerParams) \ {"apikey"} :
                    inflight.params[k] = CallerParams[k]

C3_Witness ==
    /\ Dispatched
    /\ "apikey" \in DOMAIN CallerParams
    /\ "a" \in DOMAIN CallerParams
    /\ CallerParams["apikey"] # api_key
    /\ inflight.params["apikey"] = api_key
    /\ inflight.params["a"] = ParamVal

(* ------------------------------------------------------------------ *)
(* Properties: resolving the credential at construction               *)
(* ------------------------------------------------------------------ *)

Constructed == pc \notin {"start", "failed"}

\* C4: a non-empty explicit api_key is the stored key, whatever
\* FMP_API_KEY holds, for both client classes.
C4_ExplicitKeyWins ==
    (pc # "start" /\ Truthy(init_arg)) =>
        /\ Constructed
        /\ api_key = init_arg

C4_Witness ==
    /\ Constructed
    /\ cls = "FMPClientLegacy"
    /\ init_arg = "k1"
    /\ env = "k2"
    /\ api_key = "k1"

\* C5: with the explicit key absent or empty and FMP_API_KEY non-empty,
\* construction succeeds and the stored key is the environment value.
C5_EnvKeyFallback ==
    (pc # "start" /\ ~Truthy(init_arg) /\ Truthy(env)) =>
        /\ Constructed
        /\ session
        /\ api_key = env

C5_Witness ==
    /\ Constructed
    /\ init_arg = ""
    /\ env = "k2"
    /\ api_key = "k2"
    /\ session

\* C6: with no usable explicit key and no usable FMP_API_KEY, construction
\* raises ValueError, leaves no client or session, and no request is sent.
C6_NoKeyFailsConstruction ==
    (pc # "start" /\ ~Truthy(init_arg) /\ ~Truthy(env)) =>
        /\ pc = "failed"
        /\ outcome = Raised("ValueError")
        /\ ~session
        /\ sent_count = 0
        /\ inflight = NoRequest
        /\ response = NoResponse

C6_Witness ==
    /\ pc = "failed"
    /\ init_arg = NoneVal
    /\ env = ""
    /\ outcome = Raised("ValueError")
    /\ ~session

(* ------------------------------------------------------------------ *)
(* Properties: status check and decoding                              *)
(* ------------------------------------------------------------------ *)

\* the call ended after the session returned a response
Answered == pc = "done" /\ response.kind = "response"

IsErrorStatus(st) == st \in 400..599
Is2xx(st) == st \in 200..299

\* the quote-or-comma first character and the comma of the sniff rule
StartsQuoteOrComma(text) == Len(text) > 0 /\ text[1] \in {"\"", ","}
HasComma(text) == \E i \in 1..Len(text) : text[i] = ","

\* for a body without quote characters: where its non-blank lines start,
\* and the commas of the first of them
LineStarts(text) ==
    {i \in 1..Len(text) : text[i] # "\n" /\ (i = 1 \/ text[i - 1] = "\n")}
HeaderCommas(text) ==
    {i \in 1..Len(text) :
        /\ text[i] = ","
        /\ \E b \in LineStarts(text) :
              /\ \A c \in LineStarts(text) : b <= c
              /\ b <= i
              /\ \A j \in b..i : text[j] # "\n"}

\* C7: with expect_csv=True and a passing status check the body is parsed
\* as CSV only: the call returns the parsed table (one row per data line,
\* one column per header field) or raises FMPAPIError when the parse fails;
\* response.json() is never called and no JSON value is returned.
C7_CsvBranchOnlyCsv ==
    /\ expect_csv => ~json_tried
    /\ (Answered /\ expect_csv /\ ~IsErrorStatus(response.status)) =>
          /\ csv_tried
          /\ \/ /\ outcome.kind = "return"
                /\ outcome.val.t = "table"
                /\ read_csv(response.text).ok
                /\ outcome.val = read_csv(response.text).val
                /\ ~HasComma(response.text) => outcome.val.m = 1
                /\ ~Contains(response.text, "\"") =>
                      /\ outcome.val.n = Cardinality(LineStarts(response.text)) - 1
                      /\ outcome.val.m = Cardinality(HeaderCommas(response.text)) + 1
             \/ /\ outcome = Raised("FMPAPIError")
                /\ ~read_csv(response.text).ok

\* a body that is valid JSON and valid CSV with a data row, read as CSV
C7_Witness ==
    /\ Answered
    /\ expect_csv
    /\ response.status = 200
    /\ response.text = <<"[", "\n", "]">>
    /\ json_loads(response.text).ok
    /\ outcome = Returned(Val("table", 1, 1))
    /\ ~json_tried

\* C8: with expect_csv=False, a body that is not valid JSON and does not
\* start with a double quote or a comma (the empty body included) makes the
\* call raise FMPAPIError; nothing is returned.
C8_BadJsonRaises ==
    (/\ Answered
     /\ ~expect_csv
     /\ ~IsErrorStatus(response.status)
     /\ ~json_loads(response.text).ok
     /\ ~StartsQuoteOrComma(response.text)) =>
        /\ json_tried
        /\ outcome = Raised("FMPAPIError")

\* a body with a comma that starts with neither a quote nor a comma
C8_Witness ==
    /\ Answered
    /\ ~expect_csv
    /\ response.text = <<"0", ",", "0">>
    /\ read_csv(response.text).ok
    /\ json_tried
    /\ ~csv_tried
    /\ outcome = Raised("FMPAPIError")

\* C9: with expect_csv=False, the fallback CSV parse is attempted exactly
\* when JSON parsing failed and the body is non-empty, starts with a double
\* quote or a comma and contains a comma; its table is returned when it
\* succeeds and FMPAPIError is raised when it fails.
C9_FallbackIffSniff ==
    (pc = "done" /\ ~expect_csv) =>
        /\ csv_tried <=>
              /\ json_tried
              /\ ~json_loads(response.text).ok
              /\ StartsQuoteOrComma(response.text)
              /\ HasComma(response.text)
        /\ (csv_tried /\ read_csv(response.text).ok) =>
              outcome = Returned(read_csv(response.text).val)
        /\ (csv_tried /\ ~read_csv(response.text).ok) =>
              outcome = Raised("FMPAPIError")

\* the fallback read a table out of a body that is not JSON
C9_Witness ==
    /\ pc = "done"
    /\ ~expect_csv
    /\ json_tried
    /\ csv_tried
    /\ response.text = <<",", "\n", "0">>
    /\ outcome = Returned(Val("table", 1, 2))

\* C10 as stated: a response whose status is outside 2xx is never decoded
\* and the call raises.
C10_Non2xxNeverDecoded ==
    (response.kind = "response" /\ ~Is2xx(response.status)) =>
        /\ ~json_tried
        /\ ~csv_tried
        /\ pc = "done" => outcome.kind = "raise"

\* C10 amended: a response whose status is 4xx or 5xx makes the call raise
\* FMPRequestError with no JSON or CSV decoding attempted; any decoding
\* happens after the status check, on a response that passed it.
C10_ErrorStatusNeverDecoded ==
    /\ (response.kind = "response" /\ IsErrorStatus(response.status)) =>
          /\ ~json_tried
          /\ ~csv_tried
          /\ pc \in {"raise_for_status", "done", "facade_done"}
          /\ pc = "done" => outcome = Raised("FMPRequestError")
    /\ (json_tried \/ csv_tried) =>
          /\ response.kind = "response"
          /\ ~IsErrorStatus(response.status)
          /\ pc \in {"json_failed", "done", "facade_done"}

\* a 404 whose body is valid JSON: raised, not decoded
C10_Witness ==
    /\ Answered
    /\ response.status = 404
    /\ json_loads(response.text).ok
    /\ ~json_tried
    /\ ~csv_tried
    /\ outcome = Raised("FMPRequestError")

(* ------------------------------------------------------------------ *)
(* Properties: exits of the pipeline and the requests it issues       *)
(* ------------------------------------------------------------------ *)

\* _request has ended, by a return or by an exception
PipelineExit == pc = "done"

\* C11: every exit of get or post, from URL construction to decoding, is a
\* returned value or one of the FMPError kinds; an exception that is not
\* an FMPError reaches the caller as FMPRequestError.
C11_EveryExitRecognised ==
    PipelineExit =>
        \/ outcome.kind = "return"
        \/ outcome.kind = "raise" /\ outcome.exc \in FMPErrors

\* C12 as stated: every get or post issues exactly one HTTP request, and a
\* facade method at most one.
C12_ExactlyOneRequest ==
    /\ PipelineExit => sent_count = 1
    /\ facade.name # "none" => sent_count <= 1

\* C12 amended: no call issues more than one request; a get or post whose
\* URL was built issues exactly one, whether the request succeeds, the
\* transport fails, the status is an error or decoding fails, and one that
\* raises while the URL is built issues none; a facade method issues none
\* when its arguments are refused and otherwise the one of its get.
C12_OneRequestOnceUrlBuilt ==
    /\ sent_count \in {0, 1}
    /\ pc \in {"waiting", "serving", "raise_for_status", "decode",
                "json_failed"} => sent_count = 1
    /\ PipelineExit =>
          /\ sent_count = (IF response.kind = "none" THEN 0 ELSE 1)
          /\ response.kind = "none" <=> outcome = Raised("ValueError")
    /\ pc = "facade_done" =>
          sent_count = (IF response.kind = "none" THEN 0 ELSE 1)

\* a body that cannot be decoded: one request was sent, and no second one
C12_Witness ==
    /\ PipelineExit
    /\ facade.name = "none"
    /\ response.kind = "response"
    /\ response.status = 200
    /\ outcome = Raised("FMPAPIError")
    /\ sent_count = 1

(* ------------------------------------------------------------------ *)
(* Properties: arguments of the facade methods                        *)
(* ------------------------------------------------------------------ *)

\* a facade method is running and its arguments are still in use
InFacade(name) == facade.name = name /\ Len(facade.args) > 0

\* the facade's get has not returned: its params are being merged or sent
BeforeResponse == pc \in {"add_api_key", "request", "waiting"}

\* the date arguments of the running facade method
FacadeDates ==
    IF InFacade("chart.basic") THEN {facade.args[2], facade.args[3]}
    ELSE IF InFacade("bulk_legacy.batch_eod_prices") THEN {facade.args[1]}
    ELSE {}

\* a string that is a calendar date written YYYY-MM-DD
IsIsoDate(chars) == Len(chars) = 10 /\ validate_date(chars)

\* C13: a facade method given a date string that is not a valid YYYY-MM-DD
\* calendar date raises, and no HTTP request is issued.
C13_InvalidDateNeverSent ==
    (\E d \in FacadeDates : d.t = "str" /\ ~IsIsoDate(d.chars)) =>
        /\ pc = "facade_done"
        /\ outcome.kind = "raise"
        /\ sent_count = 0

\* "," between the elements of a list of at most two strings
JoinedByComma(items) ==
    IF Len(items) = 0 THEN ""
    ELSE IF Len(items) = 1 THEN items[1].s
    ELSE items[1].s \o "," \o items[2].s

\* the string quote.batch is expected to send for a symbols argument
SymbolsString(x) == IF x.t = "str" THEN x.s ELSE JoinedByComma(x.items)

\* a str, or a list all of whose elements are str
IsSymbols(x) ==
    \/ x.t = "str"
    \/ x.t = "list" /\ \A i \in 1..Len(x.items) : x.items[i].t = "str"

\* C14: quote.batch sends a list of symbols as its elements joined by
\* commas in their order (one element as itself, the empty list as ""), a
\* string unchanged, as the only parameter next to apikey; any other
\* argument raises TypeError before a request is issued.
C14_SymbolsJoined ==
    InFacade("quote.batch") =>
        IF IsSymbols(facade.args[1])
        THEN /\ BeforeResponse
             /\ frame.arg = SomeParams(Dict1("symbols",
                                              SymbolsString(facade.args[1])))
             /\ Dispatched =>
                   inflight.params =
                       [k \in {"symbols", "apikey"} |->
                           IF k = "apikey" THEN api_key
                           ELSE SymbolsString(facade.args[1])]
        ELSE /\ pc = "facade_done"
             /\ outcome = Raised("TypeError")
             /\ sent_count = 0

\* ["AAPL", "MSFT"] on its way as "AAPL,MSFT"
C14_Witness ==
    /\ InFacade("quote.batch")
    /\ Dispatched
    /\ facade.args[1].t = "list"
    /\ Len(facade.args[1].items) = 2
    /\ facade.args[1].items[1].s = "AAPL"
    /\ inflight.params["symbols"] = "AAPL,MSFT"

(* ------------------------------------------------------------------ *)
(* Properties: response_to_df                                         *)
(* ------------------------------------------------------------------ *)

\* response_to_df(utils_arg) has returned or raised
UtilsCalled == utils_out.ok \/ utils_out.exc # "none"

\* C15: response_to_df makes of a mapping a table of one row, whose
\* columns are the keys and whose cells are the values; of a list of n > 0
\* mappings a table of n rows; of the empty list a table without rows and
\* without columns.
C15_TableOfRecords ==
    /\ (UtilsCalled /\ utils_arg.t = "dict") =>
          /\ utils_out.ok
          /\ Len(utils_out.val.rows) = 1
          /\ utils_out.val.columns = DOMAIN utils_arg.d
          /\ \A k \in DOMAIN utils_arg.d :
                utils_out.val.rows[1][k] = utils_arg.d[k]
    /\ (UtilsCalled /\ utils_arg.t = "list") =>
          /\ utils_out.ok
          /\ Len(utils_out.val.rows) = Len(utils_arg.items)
          /\ Len(utils_arg.items) = 0 => utils_out.val.columns = {}

\* {"x": "1", "y": "2"} as a table
C15_Witness ==
    /\ UtilsCalled
    /\ utils_arg.t = "dict"
    /\ DOMAIN utils_arg.d = {"x", "y"}
    /\ utils_out.ok
    /\ Len(utils_out.val.rows) = 1
    /\ utils_out.val.rows[1]["x"] = utils_arg.d["x"]

\* C16: response_to_df raises TypeError, and returns no table, for an
\* argument that is neither a dict nor a list: a table, a str, a number,
\* None.
C16_OtherTypesRejected ==
    (UtilsCalled /\ utils_arg.t \notin {"dict", "list"}) =>
        /\ ~utils_out.ok
        /\ utils_out.exc = "TypeError"

\* a table handed to response_to_df
C16_Witness ==
    /\ UtilsCalled
    /\ utils_arg.t = "DataFrame"
    /\ ~utils_out.ok
    /\ utils_out.exc = "TypeError"

(* ------------------------------------------------------------------ *)
(* Properties: what is transmitted                                    *)
(* ------------------------------------------------------------------ *)

\* C17: the params handed to the HTTP call never hold an entry whose value
\* is None, for facade methods and for direct get and post calls.
C17_NoNoneValueSent ==
    Dispatched =>
        \A k \in DOMAIN inflight.params : inflight.params[k] # NoneVal

\* C18: post sends one request with method POST, the caller's data as JSON
\* body and the caller's params plus apikey; get sends one with method GET
\* and no body.
C18_MethodBodyParams ==
    (Dispatched /\ facade.name = "none") =>
        /\ sent_count = 1
        /\ inflight.method = frame.method
        /\ inflight.method = "POST" => inflight.json = frame.data
        /\ inflight.method = "GET" => inflight.json = NoneVal
        /\ inflight.params = DictSet(CallerParams, "apikey", api_key)

\* rows of a body without quotes that parses as CSV: its non-blank lines
\* after the header
DataLines(text) == Cardinality(LineStarts(text)) - 1

\* C19: bulk.company_profiles(part) of the legacy client issues one
\* request with params exactly {"part": part, "apikey": key}, part 0
\* included, asks for CSV decoding, and returns the parsed table, one row
\* per data line.
C19_CompanyProfilesSendsPart ==
    facade.name = "bulk_legacy.company_profiles" =>
        /\ sent_count <= 1
        /\ expect_csv
        /\ ~json_tried
        /\ Dispatched =>
              /\ sent_count = 1
              /\ inflight.method = "GET"
              /\ inflight.params =
                    [k \in {"part", "apikey"} |->
                        IF k = "apikey" THEN api_key ELSE facade.args[1]]
        /\ (/\ pc = "facade_done"
            /\ facade.as_dataframe
            /\ response.kind = "response"
            /\ ~IsErrorStatus(response.status)
            /\ read_csv(response.text).ok) =>
              /\ sent_count = 1
              /\ outcome = Returned(read_csv(response.text).val)
              /\ outcome.val.t = "table"
              /\ outcome.val.n = DataLines(response.text)

\* part 0 on its way
C19_Witness ==
    /\ InFacade("bulk_legacy.company_profiles")
    /\ Dispatched
    /\ expect_csv
    /\ facade.args[1] = "0"
    /\ inflight.params["part"] = "0"
    /\ inflight.params["apikey"] = api_key

\* the path of the client's base URL, as urlsplit gives it
BasePath == urlsplit(base_url, "").path

\* url has the scheme and host of the base URL and its path starts with the
\* base URL's path
UnderBase(url) ==
    /\ url.scheme = urlsplit(base_url, "").scheme
    /\ url.netloc = urlsplit(base_url, "").netloc
    /\ Len(url.path) >= Len(BasePath)
    /\ SubSeq(url.path, 1, Len(BasePath) - 1) = Front(BasePath)

\* C20: whatever endpoint string get or post is given, the URL requested,
\* to which the apikey goes, has the scheme and host of the base URL and
\* lies under its path prefix.
C20_UrlStaysUnderBase ==
    Dispatched =>
        /\ "apikey" \in DOMAIN inflight.params
        /\ UnderBase(inflight.url)

(* ------------------------------------------------------------------ *)
(* Properties: what get and post return                               *)
(* ------------------------------------------------------------------ *)

\* _request has returned a value to the caller of get or post
PipelineReturned == PipelineExit /\ outcome.kind = "return"

\* C21: every value get or post returns is a mapping, a sequence or a
\* table, whatever the body, a JSON body that is a bare non-empty scalar
\* included.
C21_ReturnsMappingSequenceTable ==
    PipelineReturned => outcome.val.t \in {"dict", "list", "table"}

\* get hands its value to the facade method that called it
FacadeReceivesValue ==
    /\ pc = "done"
    /\ facade.name # "none"
    /\ outcome.kind = "return"
    /\ pc' = "facade_done"

\* C22: for every facade method and every value the pipeline returns,
\* as_dataframe alone selects the form of the result: a table when it is
\* set, the decoded mapping or sequence when it is not, also when the
\* pipeline returned a table read through the CSV fallback.
C22_AsDataframeSelectsForm ==
    [][FacadeReceivesValue =>
        /\ outcome'.kind = "return"
        /\ IF facade.as_dataframe
           THEN outcome'.val.t = "table"
           ELSE outcome'.val.t \in {"dict", "list"}]_vars

\* the body was decoded by response.json()
JsonDecoded == PipelineExit /\ json_tried /\ json_loads(response.text).ok

\* `not v` for a decoded value: the number 0, or a str, list or dict of
\* size 0
IsFalsy(v) == v.n = 0

\* C23: with expect_csv=False and a body that parses as JSON, a decoded
\* value that is falsy and neither a list nor a dict is returned as the
\* empty list, and every list or dict, the empty ones included, is returned
\* unchanged.
C23_FalsyScalarBecomesEmptyList ==
    JsonDecoded =>
        LET v == json_loads(response.text).val IN
        /\ ~expect_csv
        /\ outcome.kind = "return"
        /\ v.t \in {"list", "dict"} => outcome.val = v
        /\ (IsFalsy(v) /\ v.t \notin {"list", "dict"}) =>
              outcome.val = Val("list", 0, 0)

\* the body "" (an empty JSON string) came back as the empty list
C23_Witness ==
    /\ JsonDecoded
    /\ response.text = <<"\"", "\"">>
    /\ outcome = Returned(Val("list", 0, 0))

\* response.json() failed and _request returned no table
JsonFailedNoTable == PipelineExit /\ json_tried /\ outcome.kind # "return"

\* C24: whenever JSON decoding fails and no table is returned, the
\* FMPAPIError embeds the first min(500, length) characters of the body, at
\* most 500 of them, for bodies of every length.
C24_ErrorEmbedsBodyPrefix ==
    JsonFailedNoTable =>
        /\ outcome = Raised("FMPAPIError")
        /\ message.kind = "Invalid JSON response"
        /\ Len(message.body) <= 500
        /\ Len(message.body) =
              (IF Len(response.text) < 500 THEN Len(response.text) ELSE 500)
        /\ \A i \in 1..Len(message.body) : message.body[i] = response.text[i]

\* a body of more than 500 characters that was sniffed as CSV and could
\* not be read: 500 characters are embedded
C24_Witness ==
    /\ JsonFailedNoTable
    /\ csv_tried
    /\ Len(response.text) > 500
    /\ Len(message.body) = 500

(* ------------------------------------------------------------------ *)
(* Properties: which error reaches the caller                         *)
(* ------------------------------------------------------------------ *)

\* an FMPAPIError was raised while the body was decoded
DecodingRaised == PipelineExit /\ message.kind # "none"

\* session.request or raise_for_status raised an exception of the
\* RequestException family
RequestExceptionRaised ==
    /\ PipelineExit
    /\ \/ response.kind = "exception" /\ response.exc \in RequestExceptions
       \/ response.kind = "response" /\ IsErrorStatus(response.status)

BetweenCalls == pc = "idle"

\* nothing of a call is held: the state is the one __init__ left
NothingKept ==
    /\ frame = NoFrame
    /\ inflight = NoRequest
    /\ response = NoResponse
    /\ outcome = NoOutcome
    /\ message = NoMessage
    /\ facade = NoFacade
    /\ sent_count = 0
    /\ ~expect_csv
    /\ ~json_tried
    /\ ~csv_tried

\* C26: after any sequence of get, post and facade calls, however each of
\* them ended, the client's api_key and base URL are those of its
\* construction, the next request carries that apikey, and nothing of the
\* earlier calls is kept.
C26_ClientUnchangedByCalls ==
    Constructed =>
        /\ api_key = resolve_api_key(init_arg, env)
        /\ base_url = class_base_url(cls)
        /\ session
        /\ Dispatched =>
              /\ "apikey" \in DOMAIN inflight.params
              /\ inflight.params["apikey"] = api_key
        /\ BetweenCalls => NothingKept

\* a request on its way after an earlier call on the same client raised
C26_Witness ==
    /\ history = "raised"
    /\ Dispatched
    /\ inflight.params["apikey"] = api_key
    /\ api_key = init_arg

\* _add_api_key has run in the call that is under way
KeyMerged == frame.merged

\* C27: get and post leave the caller's own params mapping as it was: the
\* object the caller passed has the same keys and values after the apikey
\* was merged, for empty and non-empty mappings alike.
C27_CallerParamsUnchanged ==
    KeyMerged => frame.caller = frame.arg

(* ------------------------------------------------------------------ *)
(* Properties: format_date                                            *)
(* ------------------------------------------------------------------ *)

\* format_date has returned a string
DateFormatted == date_out.ok

\* four digits, "-", two digits, "-", two digits
IsCanonicalDate(chars) ==
    /\ Len(chars) = 10
    /\ \A i \in {1, 2, 3, 4, 6, 7, 9, 10} : IsDigit(chars[i])
    /\ chars[5] = "-"
    /\ chars[8] = "-"

\* C28: for every input format_date accepts (a string that passes
\* validation, a date, a datetime) the string returned is in the form
\* YYYY-MM-DD with zero-padded month and day; a string such as "2024-1-5"
\* is rejected or normalised, never passed through unpadded.
C28_FormatDateCanonical ==
    DateFormatted => IsCanonicalDate(date_out.val)

(* ------------------------------------------------------------------ *)
(* Properties: two clients, two threads, one params dict              *)
(* ------------------------------------------------------------------ *)

\* the request of thread t is on its way
ThreadDispatched(t) == threads[t].pc = "waiting"

\* C29: when two clients with different keys issue requests from two
\* threads with the same non-empty params mapping, each request carries
\* the apikey of the client that issued it, under every interleaving of
\* the key-merging and dispatch steps.
C29_EachRequestOwnKey ==
    \A t \in DOMAIN threads :
        ThreadDispatched(t) =>
            /\ "apikey" \in DOMAIN threads[t].sent
            /\ threads[t].sent["apikey"] = threads[t].api_key

(* ------------------------------------------------------------------ *)
(* Properties: optional parameters of the facade methods              *)
(* ------------------------------------------------------------------ *)

\* argument i of the running facade method f, an Optional[int], is sent
\* under key exactly when it is not None
IntSentUnlessNone(f, i, key) ==
    (InFacade(f) /\ Dispatched) =>
        IF facade.args[i] = NoneVal
        THEN key \notin DOMAIN inflight.params
        ELSE /\ key \in DOMAIN inflight.params
             /\ inflight.params[key] = facade.args[i]

\* argument i of the running facade method f, an optional date, is sent
\* under key exactly when it is not None
DateSentUnlessNone(f, i, key) ==
    (InFacade(f) /\ Dispatched) =>
        (key \in DOMAIN inflight.params <=> facade.args[i].t # "NoneType")

\* C30: a facade method sends every optional parameter the caller gave a
\* value other than None, falsy values such as limit=0 included, and
\* leaves out only those left as None, whether it is built with
\* clean_params or adds its parameters conditionally.
C30_OptionalSentUnlessNone ==
    /\ IntSentUnlessNone("search.symbol", 2, "limit")
    /\ IntSentUnlessNone("news.fmp_articles", 1, "page")
    /\ IntSentUnlessNone("news.fmp_articles", 2, "size")
    /\ IntSentUnlessNone("sec.latest_8k_filings", 3, "limit")
    /\ DateSentUnlessNone("sec.latest_8k_filings", 1, "from")
    /\ DateSentUnlessNone("sec.latest_8k_filings", 2, "to")
    /\ DateSentUnlessNone("chart.basic", 2, "from")
    /\ DateSentUnlessNone("chart.basic", 3, "to")

====
